---- MODULE Spec2Model ----
(***************************************************************************)
(* A model of src/manpage.rs: the Flag / Subcommand / Manpage builders,    *)
(* the mdoc renderer (Display for Manpage) and the finalizer (Drop for     *)
(* Manpage).  Text is modelled as TLA+ strings, an Option<T> as a sequence *)
(* of length at most one.                                                  *)
(***************************************************************************)
EXTENDS Naturals, Sequences, FiniteSets, TLC

VARIABLES
    man,        \* the top-level Manpage
    flag,       \* a Flag under construction
    subcmd,     \* a Subcommand under construction
    val,        \* the argument handed to the setter that is called
    files,      \* the file system: path -> Option<file>
    writes,     \* the write_to_file! expansions the drop of man ran, in order
    pushed,     \* what push_subcommand was handed, call by call: the fields it converts
    rendered,   \* Option<String>: what format!("{}", man) returned
    doc,        \* a documentation string handed to the renderer
    norm,       \* the successive normalizations of doc
    pc          \* where the caller is

vars == <<man, flag, subcmd, val, files, writes, pushed, rendered, doc, norm, pc>>

(***************************************************************************)
(* Option<T>                                                               *)
(***************************************************************************)
None == <<>>
Some(v) == <<v>>
IsSome(o) == Len(o) = 1
Unwrap(o) == o[1]

(***************************************************************************)
(* str helpers                                                             *)
(***************************************************************************)
Char(s, i) == SubSeq(s, i, i)

RECURSIVE TrimStartMatches(_, _)
TrimStartMatches(s, cs) ==
    IF Len(s) > 0 /\ Char(s, 1) \in cs
    THEN TrimStartMatches(SubSeq(s, 2, Len(s)), cs)
    ELSE s

RECURSIVE TrimEndMatches(_, _)
TrimEndMatches(s, cs) ==
    IF Len(s) > 0 /\ Char(s, Len(s)) \in cs
    THEN TrimEndMatches(SubSeq(s, 1, Len(s) - 1), cs)
    ELSE s

\* str::trim_matches(c): every leading and every trailing c is removed
TrimMatches(s, cs) == TrimEndMatches(TrimStartMatches(s, cs), cs)

Whitespace == {" ", "\t", "\n", "\r"}
Quote == {"\""}
Period == {"."}

\* str::trim()
Trim(s) == TrimMatches(s, Whitespace)

LowerCase == "abcdefghijklmnopqrstuvwxyz"
UpperCase == "ABCDEFGHIJKLMNOPQRSTUVWXYZ"

UpperChar(c) ==
    IF \E i \in 1..Len(LowerCase) : Char(LowerCase, i) = c
    THEN Char(UpperCase, CHOOSE i \in 1..Len(LowerCase) : Char(LowerCase, i) = c)
    ELSE c

\* str::to_uppercase()
RECURSIVE ToUppercase(_)
ToUppercase(s) ==
    IF Len(s) = 0 THEN ""
    ELSE UpperChar(Char(s, 1)) \o ToUppercase(SubSeq(s, 2, Len(s)))

\* line.strip_prefix(".Op").unwrap(): every line it is applied to starts with ".Op"
StripPrefixOp(line) == SubSeq(line, Len(".Op") + 1, Len(line))

(***************************************************************************)
(* The data model                                                          *)
(***************************************************************************)
TakesValue(kind, multiple) == [kind |-> kind, multiple |-> multiple]

\* Flag::new()
Flag_new == [long |-> None, short |-> None, args |-> None, doc |-> None]

\* Subcommand::new(name)
Subcommand_new(name) == [name |-> name, args |-> None, flags |-> <<>>, doc |-> None]

\* Manpage::new()
Manpage_new ==
    [name |-> "", description |-> None, long_description |-> None,
     author |-> None, version |-> None,
     path |-> None, header_path |-> None, footer_path |-> None,
     flags |-> <<>>, subcommands |-> <<>>]

(***************************************************************************)
(* Display for Manpage                                                     *)
(***************************************************************************)
\* the (None, None) => continue arm of both label matches
Nameless(f) == f.long = None /\ f.short = None

\* top-level flag: match (long, short)
FlagLabel(f) ==
    IF IsSome(f.long) /\ IsSome(f.short) /\ f.long = f.short
    THEN ".Op Fl -" \o Unwrap(f.long)
    ELSE IF IsSome(f.long) /\ IsSome(f.short)
    THEN ".Op Fl -" \o Unwrap(f.long) \o " | -" \o Unwrap(f.short)
    ELSE IF IsSome(f.short)
    THEN ".Op Fl -" \o Unwrap(f.short)
    ELSE ".Op Fl -" \o Unwrap(f.long)

\* long.as_ref().or(short.as_ref()).map(String::as_str).unwrap_or("ARGUMENT")
FlagPlaceholder(f) ==
    IF IsSome(f.long) THEN Unwrap(f.long)
    ELSE IF IsSome(f.short) THEN Unwrap(f.short)
    ELSE "ARGUMENT"

\* top-level flag: match args
FlagArity(f) ==
    IF IsSome(f.args) /\ Unwrap(f.args).multiple
    THEN " Ar " \o (IF IsSome(Unwrap(f.args).kind)
                    THEN Unwrap(Unwrap(f.args).kind)
                    ELSE FlagPlaceholder(f)) \o " ..."
    ELSE IF IsSome(f.args)
    THEN " Ar " \o (IF IsSome(Unwrap(f.args).kind)
                    THEN Unwrap(Unwrap(f.args).kind)
                    ELSE FlagPlaceholder(f))
    ELSE ""

\* top-level flag doc: trim, trim '.', trim '"', trim '.', then "{}." of doc.trim()
NormalizeFlagDoc(d) ==
    Trim(TrimMatches(TrimMatches(TrimMatches(Trim(d), Period), Quote), Period)) \o "."

\* the line a top-level flag adds to the synopsis
FlagLine(f) == FlagLabel(f) \o FlagArity(f) \o "\n"

\* what a top-level flag adds to the flag table
FlagItem(f) ==
    ".It " \o Trim(StripPrefixOp(FlagLine(f))) \o "\n"
    \o (IF IsSome(f.doc) THEN NormalizeFlagDoc(Unwrap(f.doc)) \o "\n" ELSE "")

\* variant: the (None, None) arm adds an empty label instead of continuing
RECURSIVE SynopsisWithNameless(_)
SynopsisWithNameless(flags) ==
    IF flags = <<>> THEN ".Nm\n"
    ELSE LET f == flags[Len(flags)]
             init == SynopsisWithNameless(SubSeq(flags, 1, Len(flags) - 1))
         IN  IF Nameless(f) THEN init \o ".Op Fl -" \o FlagArity(f) \o "\n"
             ELSE init \o FlagLine(f)

RECURSIVE Synopsis(_)
Synopsis(flags) ==
    IF flags = <<>> THEN ".Nm\n"
    ELSE LET f == flags[Len(flags)]
             init == Synopsis(SubSeq(flags, 1, Len(flags) - 1))
         IN  IF Nameless(f) THEN init ELSE init \o FlagLine(f)

RECURSIVE FlagTableItems(_)
FlagTableItems(flags) ==
    IF flags = <<>> THEN ".Bl -tag -width flag -offset indent\n"
    ELSE LET f == flags[Len(flags)]
             init == FlagTableItems(SubSeq(flags, 1, Len(flags) - 1))
         IN  IF Nameless(f) THEN init ELSE init \o FlagItem(f)

FlagTable(flags) == FlagTableItems(flags) \o ".El\n"

\* subcommand header: match cmd.args
SubcommandArity(cmd) ==
    IF IsSome(cmd.args) /\ Unwrap(cmd.args).multiple
    THEN " Ar " \o (IF IsSome(Unwrap(cmd.args).kind)
                    THEN Unwrap(Unwrap(cmd.args).kind)
                    ELSE "ARGUMENT") \o " ..."
    ELSE IF IsSome(cmd.args)
    THEN " Ar " \o (IF IsSome(Unwrap(cmd.args).kind)
                    THEN Unwrap(Unwrap(cmd.args).kind)
                    ELSE "ARGUMENT")
    ELSE ""

\* subcommand flag: match (long, short)
SubFlagLabel(f) ==
    IF IsSome(f.long) /\ IsSome(f.short) /\ f.long = f.short
    THEN ".Fl -" \o Unwrap(f.long)
    ELSE IF IsSome(f.long) /\ IsSome(f.short)
    THEN ".Fl -" \o Unwrap(f.long) \o " | -" \o Unwrap(f.short)
    ELSE IF IsSome(f.short)
    THEN ".Fl -" \o Unwrap(f.short)
    ELSE ".Fl -" \o Unwrap(f.long)

\* variant: the short name is preferred to the long one
SubFlagPlaceholderShortFirst(f) ==
    IF IsSome(f.short) THEN Unwrap(f.short)
    ELSE IF IsSome(f.long) THEN Unwrap(f.long)
    ELSE "ARGUMENT"

\* long.as_ref().or(short.as_ref()).map(String::as_str).unwrap_or("ARGUMENT")
SubFlagPlaceholder(f) ==
    IF IsSome(f.long) THEN Unwrap(f.long)
    ELSE IF IsSome(f.short) THEN Unwrap(f.short)
    ELSE "ARGUMENT"

\* subcommand flag: match args
SubFlagArity(f) ==
    IF IsSome(f.args) /\ Unwrap(f.args).multiple
    THEN " Ar " \o (IF IsSome(Unwrap(f.args).kind)
                    THEN Unwrap(Unwrap(f.args).kind)
                    ELSE SubFlagPlaceholder(f)) \o " ..."
    ELSE IF IsSome(f.args)
    THEN " Ar " \o (IF IsSome(Unwrap(f.args).kind)
                    THEN Unwrap(Unwrap(f.args).kind)
                    ELSE SubFlagPlaceholder(f))
    ELSE ""

\* subcommand flag doc: trim, trim '.', trim '"', trim '.', then "{}."
NormalizeSubFlagDoc(d) ==
    TrimMatches(TrimMatches(TrimMatches(Trim(d), Period), Quote), Period) \o "."

\* variant: the periods are not stripped before the final one is appended
NormalizeSubDocKeepsPeriods(d) == TrimMatches(Trim(d), Quote) \o "."

\* subcommand doc: trim, trim '.', trim '"', trim '.', then "{}."
NormalizeSubDoc(d) ==
    TrimMatches(TrimMatches(TrimMatches(Trim(d), Period), Quote), Period) \o "."

\* what a flag of a subcommand adds to the subcommand's item
SubFlagLine(f) ==
    LET line == "\n" \o SubFlagLabel(f) \o SubFlagArity(f) \o "\n"
                \o (IF IsSome(f.doc)
                    THEN NormalizeSubFlagDoc(Unwrap(f.doc)) \o "\n" ELSE "")
    IN  IF Trim(line) # "" THEN line ELSE ""

RECURSIVE SubFlagLines(_)
SubFlagLines(flags) ==
    IF flags = <<>> THEN ""
    ELSE LET f == flags[Len(flags)]
             init == SubFlagLines(SubSeq(flags, 1, Len(flags) - 1))
         IN  IF Nameless(f) THEN init ELSE init \o SubFlagLine(f)

\* one iteration of `for cmd in self.subcommands.iter()`
SubcommandItem(cmd) ==
    ".It Ic " \o cmd.name \o SubcommandArity(cmd) \o SubFlagLines(cmd.flags) \o "\n"
    \o (IF IsSome(cmd.doc) THEN NormalizeSubDoc(Unwrap(cmd.doc)) \o "\n" ELSE "")

RECURSIVE SubcommandItems(_)
SubcommandItems(cmds) ==
    IF cmds = <<>> THEN ".Bl -tag -width Ds -compact -offset indent\n"
    ELSE SubcommandItems(SubSeq(cmds, 1, Len(cmds) - 1))
         \o SubcommandItem(cmds[Len(cmds)])

Subcommands(cmds) == SubcommandItems(cmds) \o ".El\n.Pp\n"

\* variant: subcmd_br is an empty line
FmtBlankLine(m) ==
    (IF m.flags = <<>> THEN "" ELSE Trim(Synopsis(m.flags)))
    \o (IF m.flags = <<>> THEN "" ELSE "\n")
    \o (IF m.flags = <<>> THEN "" ELSE Trim(FlagTable(m.flags)))
    \o (IF m.subcommands = <<>> THEN "" ELSE "\n\n")
    \o (IF m.subcommands = <<>> THEN "" ELSE Trim(Subcommands(m.subcommands)))
    \o "\n"

\* variant: the flag table is written whether or not there are flags
FmtAlwaysFlagTable(m) ==
    (IF m.flags = <<>> THEN "" ELSE Trim(Synopsis(m.flags)))
    \o (IF m.flags = <<>> THEN "" ELSE "\n")
    \o Trim(FlagTable(m.flags))
    \o (IF m.subcommands = <<>> THEN "" ELSE "\n")
    \o (IF m.subcommands = <<>> THEN "" ELSE Trim(Subcommands(m.subcommands)))
    \o "\n"

\* the write!() that assembles the body
Fmt(m) ==
    (IF m.flags = <<>> THEN "" ELSE Trim(Synopsis(m.flags)))
    \o (IF m.flags = <<>> THEN "" ELSE "\n")
    \o (IF m.flags = <<>> THEN "" ELSE Trim(FlagTable(m.flags)))
    \o (IF m.subcommands = <<>> THEN "" ELSE "\n")
    \o (IF m.subcommands = <<>> THEN "" ELSE Trim(Subcommands(m.subcommands)))
    \o "\n"


(***************************************************************************)
(* The builder contract                                                    *)
(***************************************************************************)
\* variant: trim_start_matches in place of trim_matches
UnquoteStartOnly(v) == TrimStartMatches(v, Quote)

\* val.trim_matches('"').to_string()
Unquote(v) == TrimMatches(v, Quote)

\* val.map(|v| v.trim_matches('"').to_string())
MapUnquote(ov) == IF IsSome(ov) THEN Some(Unquote(Unwrap(ov))) ELSE None

Flag_long(f, v) == [f EXCEPT !.long = Some(Unquote(v))]
Flag_short(f, v) == [f EXCEPT !.short = Some(Unquote(v))]
Flag_doc(f, v) == [f EXCEPT !.doc = Some(Unquote(v))]
Flag_args(f, v) == [f EXCEPT !.args = Some(v)]

Subcommand_doc(s, v) == [s EXCEPT !.doc = Some(Unquote(v))]
Subcommand_flags(s, v) == [s EXCEPT !.flags = v]

Manpage_name(m, v) == [m EXCEPT !.name = Unquote(v)]
Manpage_path(m, v) == [m EXCEPT !.path = Some(v)]
Manpage_header_path(m, v) == [m EXCEPT !.header_path = Some(v)]
Manpage_footer_path(m, v) == [m EXCEPT !.footer_path = Some(v)]
Manpage_description(m, ov) == [m EXCEPT !.description = MapUnquote(ov)]
Manpage_author(m, ov) == [m EXCEPT !.author = MapUnquote(ov)]
Manpage_version(m, ov) == [m EXCEPT !.version = MapUnquote(ov)]
Manpage_long_description(m, ov) == [m EXCEPT !.long_description = MapUnquote(ov)]

(***************************************************************************)
(* Drop for Manpage                                                        *)
(***************************************************************************)
Targets == <<"path", "header_path", "footer_path">>
Outcomes == {"ok", "create_err", "write_err"}
NoFile == None

\* Some(v).unwrap_or_default() of an Option<&str>
UnwrapOrDefault(o) == IF IsSome(o) THEN Unwrap(o) ELSE ""

\* The write_to_file! macro.  File::create fails: nothing is created and drop
\* returns.  write_all fails: the file exists, cut short (which strict prefix of
\* the text reached it is not tracked), and drop returns.
WriteToFile(st, target, path, string, outcome) ==
    LET entry == [target |-> target, path |-> path, data |-> string,
                  result |-> outcome]
    IN  IF outcome = "create_err"
        THEN [st EXCEPT !.writes = Append(@, entry), !.returned = TRUE]
        ELSE IF outcome = "write_err"
        THEN [st EXCEPT !.files[path] = Some([complete |-> FALSE, data |-> ""]),
                        !.writes = Append(@, entry), !.returned = TRUE]
        ELSE [st EXCEPT !.files[path] = Some([complete |-> TRUE, data |-> string]),
                        !.writes = Append(@, entry)]

\* variant: the title line takes the name as it is, not upper-cased
HeaderStringNotUppercased(self) ==
    ".Dd $Mdocdate$\n.Dt " \o TrimMatches(self.name, Quote)
    \o " 1\n.Os\n.Sh NAME\n.Nm " \o TrimMatches(self.name, Quote)
    \o "\n.Nd "
    \o TrimEndMatches(TrimMatches(UnwrapOrDefault(self.description), Quote), Period)
    \o "."

HeaderString(self) ==
    ".Dd $Mdocdate$\n.Dt " \o TrimMatches(ToUppercase(self.name), Quote)
    \o " 1\n.Os\n.Sh NAME\n.Nm " \o TrimMatches(self.name, Quote)
    \o "\n.Nd "
    \o TrimEndMatches(TrimMatches(UnwrapOrDefault(self.description), Quote), Period)
    \o "."

FooterString(self) ==
    ".Sh AUTHORS\n" \o TrimMatches(UnwrapOrDefault(self.author), Quote)

\* if let Some(path) = self.path.take() { write_to_file!(path, format!("{}", self)) }
DropBody(st, oc) ==
    IF IsSome(st.self.path)
    THEN LET taken == [st EXCEPT !.self.path = None]
         IN  WriteToFile(taken, "path", Unwrap(st.self.path), Fmt(taken.self),
                         oc["path"])
    ELSE st

\* variant: a failed write is reported and drop goes on to the header
DropHeaderAfterFailure(st, oc) ==
    IF IsSome(st.self.header_path)
    THEN LET taken == [st EXCEPT !.self.header_path = None]
         IN  WriteToFile(taken, "header_path", Unwrap(st.self.header_path),
                         HeaderString(taken.self), oc["header_path"])
    ELSE st

\* if let Some(path) = self.header_path.take() { ... }
DropHeader(st, oc) ==
    IF st.returned THEN st
    ELSE IF IsSome(st.self.header_path)
    THEN LET taken == [st EXCEPT !.self.header_path = None]
         IN  WriteToFile(taken, "header_path", Unwrap(st.self.header_path),
                         HeaderString(taken.self), oc["header_path"])
    ELSE st

\* if let Some(path) = self.footer_path.take() { ... }
DropFooter(st, oc) ==
    IF st.returned THEN st
    ELSE IF IsSome(st.self.footer_path)
    THEN LET taken == [st EXCEPT !.self.footer_path = None]
         IN  WriteToFile(taken, "footer_path", Unwrap(st.self.footer_path),
                         FooterString(taken.self), oc["footer_path"])
    ELSE st

\* Drop::drop(&mut self) on file system fs, the environment answering each
\* attempted target with oc[target]
Manpage_drop(self, fs, oc) ==
    DropFooter(DropHeader(DropBody(
        [self |-> self, files |-> fs, writes |-> <<>>, returned |-> FALSE], oc), oc), oc)

\* The answers of the environment that matter to a drop of self: a target that
\* is not set, or that follows a failed one, is not asked for.
DropOutcomes(self) ==
    {oc \in [{Targets[i] : i \in 1..Len(Targets)} -> Outcomes] :
        \A i \in 1..Len(Targets) :
            (\/ self[Targets[i]] = None
             \/ \E j \in 1..(i - 1) : oc[Targets[j]] # "ok")
            => oc[Targets[i]] = "ok"}

(***************************************************************************)
(* Manpage::push_subcommand                                                *)
(***************************************************************************)
\* variant: the long description is assigned first, so the short one is kept
SubcommandOfShortLast(cmd) ==
    LET val0 == Subcommand_new(cmd.name)
        val1 == IF IsSome(cmd.long_description)
                THEN Subcommand_doc(val0, Unwrap(cmd.long_description))
                ELSE val0
        val2 == IF IsSome(cmd.description)
                THEN Subcommand_doc(val1, Unwrap(cmd.description))
                ELSE val1
    IN  Subcommand_flags(val2, cmd.flags)

\* the Subcommand push_subcommand makes of cmd
SubcommandOf(cmd) ==
    LET name == cmd.name
        description == cmd.description
        long_description == cmd.long_description
        flags == cmd.flags
        val0 == Subcommand_new(name)
        val1 == IF IsSome(description) THEN Subcommand_doc(val0, Unwrap(description))
                ELSE val0
        val2 == IF IsSome(long_description)
                THEN Subcommand_doc(val1, Unwrap(long_description))
                ELSE val1
    IN  Subcommand_flags(val2, flags)

\* cmd as it is when push_subcommand returns and cmd is dropped
Emptied(cmd) ==
    [cmd EXCEPT !.path = None, !.name = "", !.description = None,
                !.long_description = None, !.flags = <<>>]

Manpage_push_subcommand(self, cmd) ==
    [self EXCEPT !.subcommands = Append(@, SubcommandOf(cmd))]

(***************************************************************************)
(* Bounds and the inputs the callers draw from                             *)
(***************************************************************************)
MaxValLen == 5
MaxDocLen == 4
MaxRenders == 2
MaxFlags == 2
MaxSubs == 2
MaxFlagsPushed == 1

RECURSIVE StringsOfLen(_, _)
StringsOfLen(alphabet, n) ==
    IF n = 0 THEN {""}
    ELSE {s \o c : s \in StringsOfLen(alphabet, n - 1), c \in alphabet}

StringsUpTo(alphabet, n) == UNION {StringsOfLen(alphabet, k) : k \in 0..n}

RECURSIVE SeqsOfLen(_, _)
SeqsOfLen(S, n) ==
    IF n = 0 THEN {<<>>}
    ELSE {Append(q, x) : q \in SeqsOfLen(S, n - 1), x \in S}

SeqsUpTo(S, n) == UNION {SeqsOfLen(S, k) : k \in 0..n}

Paths == {"ls.1", "ls.header", "ls.footer"}
NoFiles == [p \in Paths |-> NoFile]

\* what the setters are handed: a value or, for the optional ones, also None
ValInputs == {None} \cup {Some(s) : s \in StringsUpTo({"a", "\""}, MaxValLen)}

\* documentation strings
DocStrings == StringsUpTo({"a", " ", ".", "\""}, MaxDocLen)

NameInputs == {"ls", "\"ls\""}
DescriptionInputs == {None, Some("\"List files..\"")}
AuthorInputs == {None, Some("J. Doe")}

KindInputs == {None, Some("FILE")}
ArgsInputs == {None} \cup {Some(TakesValue(k, m)) : k \in KindInputs, m \in BOOLEAN}

Flag(long, short, args, d) == [long |-> long, short |-> short, args |-> args, doc |-> d]

NamedPairs ==
    {<<Some("tag"), None>>, <<None, Some("t")>>, <<Some("tag"), Some("t")>>,
     <<Some("tag"), Some("tag")>>}

\* the flags the renderer is tried on: every name pattern with every arity
\* without an explicit kind, explicit kinds, documented and nameless flags
FlagInputs ==
    {Flag(n[1], n[2], a, None) :
        n \in NamedPairs, a \in {x \in ArgsInputs : x = None \/ Unwrap(x).kind = None}}
    \cup {Flag(Some("tag"), Some("t"), a, None) :
        a \in {x \in ArgsInputs : x # None /\ Unwrap(x).kind # None}}
    \cup {Flag(None, Some("t"), Some(TakesValue(Some("FILE"), TRUE)), None),
          Flag(Some("tag"), Some("t"), None, Some("Tag it")),
          Flag(None, None, None, None),
          Flag(None, None, Some(TakesValue(None, TRUE)), Some("Never shown")),
          Flag(None, None, Some(TakesValue(Some("FILE"), FALSE)), None)}

FlagLists == SeqsUpTo(FlagInputs, MaxFlags)

Flag0 == Flag(Some("all"), Some("a"), None, Some("Show all"))
Sub0 == [name |-> "add", args |-> None, flags |-> <<Flag0>>, doc |-> Some("Add it")]
Sub1 == [name |-> "rm", args |-> None, flags |-> <<>>, doc |-> None]

\* a page with these flags and subcommands
Page(flags, subcommands) ==
    [Manpage_new EXCEPT !.flags = flags, !.subcommands = subcommands]

\* the transient pages push_subcommand is handed, each built by the setters
CmdInputs ==
    {LET m1 == Manpage_name(Manpage_new, n)
         m2 == Manpage_description(m1, d)
         m3 == Manpage_long_description(m2, l)
         m4 == [m3 EXCEPT !.flags = fl]
         m5 == IF p THEN Manpage_path(m4, "ls.1") ELSE m4
         m6 == IF h THEN Manpage_header_path(m5, "ls.header") ELSE m5
     IN  IF f THEN Manpage_footer_path(m6, "ls.footer") ELSE m6 :
        n \in {"add", "\"rm\""}, d \in {None, Some("\"Short\"")},
        l \in {None, Some("Long.")}, fl \in {<<>>, <<Flag0>>},
        p \in BOOLEAN, h \in BOOLEAN, f \in BOOLEAN}

(***************************************************************************)
(* The finalizer's life cycle: a page is built and then dropped            *)
(***************************************************************************)
Init ==
    /\ man = Manpage_new
    /\ flag = Flag_new
    /\ subcmd = Subcommand_new("")
    /\ val = None
    /\ files = NoFiles
    /\ writes = <<>>
    /\ pushed = <<>>
    /\ rendered = None
    /\ doc = ""
    /\ norm = <<>>
    /\ pc = "build"

Name ==
    /\ pc = "build"
    /\ \E v \in NameInputs : man' = Manpage_name(man, v)
    /\ UNCHANGED <<flag, subcmd, val, files, writes, pushed, rendered, doc, norm, pc>>

Description ==
    /\ pc = "build"
    /\ \E v \in DescriptionInputs : man' = Manpage_description(man, v)
    /\ UNCHANGED <<flag, subcmd, val, files, writes, pushed, rendered, doc, norm, pc>>

Author ==
    /\ pc = "build"
    /\ \E v \in AuthorInputs : man' = Manpage_author(man, v)
    /\ UNCHANGED <<flag, subcmd, val, files, writes, pushed, rendered, doc, norm, pc>>

Path ==
    /\ pc = "build"
    /\ \E p \in Paths : man' = Manpage_path(man, p)
    /\ UNCHANGED <<flag, subcmd, val, files, writes, pushed, rendered, doc, norm, pc>>

HeaderPath ==
    /\ pc = "build"
    /\ \E p \in Paths : man' = Manpage_header_path(man, p)
    /\ UNCHANGED <<flag, subcmd, val, files, writes, pushed, rendered, doc, norm, pc>>

FooterPath ==
    /\ pc = "build"
    /\ \E p \in Paths : man' = Manpage_footer_path(man, p)
    /\ UNCHANGED <<flag, subcmd, val, files, writes, pushed, rendered, doc, norm, pc>>

\* man.flags.push(flag): flags is a public field
PushFlag ==
    /\ pc = "build"
    /\ Len(man.flags) < MaxFlagsPushed
    /\ man' = [man EXCEPT !.flags = Append(@, Flag0)]
    /\ UNCHANGED <<flag, subcmd, val, files, writes, pushed, rendered, doc, norm, pc>>

\* the page's lifetime ends
Drop ==
    /\ pc = "build"
    /\ \E oc \in DropOutcomes(man) :
        LET st == Manpage_drop(man, files, oc)
        IN  /\ man' = st.self
            /\ files' = st.files
            /\ writes' = st.writes
    /\ pc' = "dropped"
    /\ UNCHANGED <<flag, subcmd, val, pushed, rendered, doc, norm>>

Next ==
    \/ Name \/ Description \/ Author \/ Path \/ HeaderPath \/ FooterPath
    \/ PushFlag \/ Drop

Spec == Init /\ [][Next]_vars

(***************************************************************************)
(* Subcommands: transient pages are handed to push_subcommand              *)
(***************************************************************************)
\* parent.push_subcommand(cmd), the drop of cmd at its end included
PushSubcommand ==
    /\ pc = "build"
    /\ Len(man.subcommands) < MaxSubs
    /\ \E cmd \in CmdInputs :
        \E oc \in DropOutcomes(Emptied(cmd)) :
            LET st == Manpage_drop(Emptied(cmd), files, oc)
            IN  /\ man' = Manpage_push_subcommand(man, cmd)
                /\ files' = st.files
                /\ pushed' = Append(pushed,
                       [name |-> cmd.name, description |-> cmd.description,
                        long_description |-> cmd.long_description,
                        flags |-> cmd.flags])
    /\ UNCHANGED <<flag, subcmd, val, writes, rendered, doc, norm, pc>>

NextSub == PushSubcommand

SpecSub == Init /\ [][NextSub]_vars

(***************************************************************************)
(* The setters, each called once on a fresh object                          *)
(***************************************************************************)
InitSetter ==
    /\ man = Manpage_new
    /\ flag = Flag_new
    /\ subcmd = Subcommand_new("")
    /\ val \in ValInputs
    /\ files = NoFiles
    /\ writes = <<>>
    /\ pushed = <<>>
    /\ rendered = None
    /\ doc = ""
    /\ norm = <<>>
    /\ pc = "call"

CallFlagLong ==
    /\ pc = "call" /\ IsSome(val)
    /\ flag' = Flag_long(flag, Unwrap(val))
    /\ pc' = "Flag::long"
    /\ UNCHANGED <<man, subcmd, val, files, writes, pushed, rendered, doc, norm>>

CallFlagShort ==
    /\ pc = "call" /\ IsSome(val)
    /\ flag' = Flag_short(flag, Unwrap(val))
    /\ pc' = "Flag::short"
    /\ UNCHANGED <<man, subcmd, val, files, writes, pushed, rendered, doc, norm>>

CallFlagDoc ==
    /\ pc = "call" /\ IsSome(val)
    /\ flag' = Flag_doc(flag, Unwrap(val))
    /\ pc' = "Flag::doc"
    /\ UNCHANGED <<man, subcmd, val, files, writes, pushed, rendered, doc, norm>>

CallSubcommandDoc ==
    /\ pc = "call" /\ IsSome(val)
    /\ subcmd' = Subcommand_doc(subcmd, Unwrap(val))
    /\ pc' = "Subcommand::doc"
    /\ UNCHANGED <<man, flag, val, files, writes, pushed, rendered, doc, norm>>

CallName ==
    /\ pc = "call" /\ IsSome(val)
    /\ man' = Manpage_name(man, Unwrap(val))
    /\ pc' = "Manpage::name"
    /\ UNCHANGED <<flag, subcmd, val, files, writes, pushed, rendered, doc, norm>>

CallDescription ==
    /\ pc = "call"
    /\ man' = Manpage_description(man, val)
    /\ pc' = "Manpage::description"
    /\ UNCHANGED <<flag, subcmd, val, files, writes, pushed, rendered, doc, norm>>

CallLongDescription ==
    /\ pc = "call"
    /\ man' = Manpage_long_description(man, val)
    /\ pc' = "Manpage::long_description"
    /\ UNCHANGED <<flag, subcmd, val, files, writes, pushed, rendered, doc, norm>>

CallAuthor ==
    /\ pc = "call"
    /\ man' = Manpage_author(man, val)
    /\ pc' = "Manpage::author"
    /\ UNCHANGED <<flag, subcmd, val, files, writes, pushed, rendered, doc, norm>>

CallVersion ==
    /\ pc = "call"
    /\ man' = Manpage_version(man, val)
    /\ pc' = "Manpage::version"
    /\ UNCHANGED <<flag, subcmd, val, files, writes, pushed, rendered, doc, norm>>

NextSetter ==
    \/ CallFlagLong \/ CallFlagShort \/ CallFlagDoc \/ CallSubcommandDoc
    \/ CallName \/ CallDescription \/ CallLongDescription \/ CallAuthor
    \/ CallVersion

SpecSetter == InitSetter /\ [][NextSetter]_vars

(***************************************************************************)
(* Normalization: a documentation string is rendered, and what was         *)
(* rendered is handed to the same place of the renderer again              *)
(***************************************************************************)
InitNorm ==
    /\ man = Manpage_new
    /\ flag = Flag_new
    /\ subcmd = Subcommand_new("")
    /\ val = None
    /\ files = NoFiles
    /\ writes = <<>>
    /\ pushed = <<>>
    /\ rendered = None
    /\ doc \in DocStrings
    /\ norm = <<>>
    /\ pc = "doc"

\* the text normalized next
Current == IF norm = <<>> THEN doc ELSE norm[Len(norm)]

RenderFlagDoc ==
    /\ pc \in {"doc", "flag doc"}
    /\ Len(norm) < MaxRenders
    /\ norm' = Append(norm, NormalizeFlagDoc(Current))
    /\ pc' = "flag doc"
    /\ UNCHANGED <<man, flag, subcmd, val, files, writes, pushed, rendered, doc>>

RenderSubFlagDoc ==
    /\ pc \in {"doc", "subcommand flag doc"}
    /\ Len(norm) < MaxRenders
    /\ norm' = Append(norm, NormalizeSubFlagDoc(Current))
    /\ pc' = "subcommand flag doc"
    /\ UNCHANGED <<man, flag, subcmd, val, files, writes, pushed, rendered, doc>>

RenderSubDoc ==
    /\ pc \in {"doc", "subcommand doc"}
    /\ Len(norm) < MaxRenders
    /\ norm' = Append(norm, NormalizeSubDoc(Current))
    /\ pc' = "subcommand doc"
    /\ UNCHANGED <<man, flag, subcmd, val, files, writes, pushed, rendered, doc>>

NextNorm == RenderFlagDoc \/ RenderSubFlagDoc \/ RenderSubDoc

SpecNorm == InitNorm /\ [][NextNorm]_vars

(***************************************************************************)
(* The renderer on a built page                                            *)
(***************************************************************************)
\* The pages the renderer is tried on: every flag list with no subcommand and
\* with one, every flag list as the flags of a subcommand, and every list of
\* subcommands with no flag and with one.
InitRender ==
    /\ \/ \E fl \in FlagLists, ss \in {<<>>, <<Sub0>>} : man = Page(fl, ss)
       \/ \E sf \in FlagLists :
              \/ man = Page(<<>>, <<[Sub1 EXCEPT !.flags = sf]>>)
              \/ man = Page(<<Flag0>>,
                             <<[Sub1 EXCEPT !.flags = sf, !.doc = Some("Remove it")]>>)
       \/ \E fl \in {<<>>, <<Flag0>>}, ss \in SeqsUpTo({Sub0, Sub1}, MaxSubs) :
              man = Page(fl, ss)
    /\ flag = Flag_new
    /\ subcmd = Subcommand_new("")
    /\ val = None
    /\ files = NoFiles
    /\ writes = <<>>
    /\ pushed = <<>>
    /\ rendered = None
    /\ doc = ""
    /\ norm = <<>>
    /\ pc = "render"

\* format!("{}", man)
Render ==
    /\ pc = "render"
    /\ rendered' = Some(Fmt(man))
    /\ pc' = "rendered"
    /\ UNCHANGED <<man, flag, subcmd, val, files, writes, pushed, doc, norm>>

NextRender == Render

SpecRender == InitRender /\ [][NextRender]_vars

(***************************************************************************)
(* Text helpers of the properties                                          *)
(***************************************************************************)
StartsWith(s, p) == Len(p) <= Len(s) /\ SubSeq(s, 1, Len(p)) = p
EndsWith(s, p) == Len(p) <= Len(s) /\ SubSeq(s, Len(s) - Len(p) + 1, Len(s)) = p
Contains(s, p) == \E i \in 1..(Len(s) + 1) : StartsWith(SubSeq(s, i, Len(s)), p)

\* the index of the first line feed of s at or after i, 0 when there is none
RECURSIVE LineFeedFrom(_, _)
LineFeedFrom(s, i) ==
    IF i > Len(s) THEN 0
    ELSE IF Char(s, i) = "\n" THEN i
    ELSE LineFeedFrom(s, i + 1)

\* the lines of a text: what each line feed ends, and what follows the last one
RECURSIVE Lines(_)
Lines(s) ==
    IF s = "" THEN <<>>
    ELSE LET k == LineFeedFrom(s, 1)
         IN  IF k = 0 THEN <<s>>
             ELSE <<SubSeq(s, 1, k - 1)>> \o Lines(SubSeq(s, k + 1, Len(s)))

HasLine(lines, l) == \E i \in 1..Len(lines) : lines[i] = l
CountLine(lines, l) == Cardinality({i \in 1..Len(lines) : lines[i] = l})
StartingWith(lines, prefix) == SelectSeq(lines, LAMBDA l : StartsWith(l, prefix))

NamedFlags(flags) == SelectSeq(flags, LAMBDA f : ~Nameless(f))

FlagOpen == ".Bl -tag -width flag -offset indent"
SubOpen == ".Bl -tag -width Ds -compact -offset indent"

DropStep == pc = "build" /\ pc' = "dropped"
SetTargets(m) == SelectSeq(Targets, LAMBDA t : IsSome(m[t]))
WholeFile(string) == Some([complete |-> TRUE, data |-> string])

(***************************************************************************)
(* The finalizer (Spec)                                                    *)
(***************************************************************************)
\* C1: a drop attempts the targets that are set in the order path, header_path,
\* footer_path and stops at the first one whose File::create or write_all fails:
\* the attempts are a prefix of the set targets, only the last attempt can have
\* failed, the prefix is cut short only by a failure, no file changes but those
\* of the attempted targets (none at all when the creation failed), and what was
\* written before the failure stays written.
C1_StopsAtFirstFailure ==
    [][DropStep =>
        LET set == SetTargets(man)
            n == Len(writes')
        IN  /\ n <= Len(set)
            /\ \A i \in 1..n :
                /\ writes'[i].target = set[i]
                /\ writes'[i].path = Unwrap(man[set[i]])
            /\ \A i \in 1..(n - 1) : writes'[i].result = "ok"
            /\ n < Len(set) => (n >= 1 /\ writes'[n].result # "ok")
            /\ \A p \in Paths :
                files'[p] # files[p] =>
                    \E i \in 1..n : writes'[i].path = p /\ writes'[i].result # "create_err"
            /\ \A i \in 1..n :
                (/\ writes'[i].result = "ok"
                 /\ \A j \in (i + 1)..n : writes'[j].path # writes'[i].path)
                => files'[writes'[i].path] = WholeFile(writes'[i].data)
            /\ (n >= 1 /\ writes'[1].target = "path" /\ writes'[1].result # "ok")
                => \A p \in Paths \ {Unwrap(man.path)} : files'[p] = NoFile
    ]_vars

\* C1 witness: the body write failed with header_path and footer_path set, on
\* other paths, and neither file exists
C1_Witness ==
    /\ pc = "dropped"
    /\ Len(writes) = 1
    /\ writes[1].target = "path"
    /\ writes[1].result # "ok"
    /\ IsSome(man.header_path) /\ IsSome(man.footer_path)
    /\ Cardinality({writes[1].path, Unwrap(man.header_path), Unwrap(man.footer_path)}) = Len(Targets)
    /\ files[Unwrap(man.header_path)] = NoFile
    /\ files[Unwrap(man.footer_path)] = NoFile

\* the header the templates give for the page's field values
TemplateHeader(m) ==
    ".Dd $Mdocdate$\n.Dt " \o ToUppercase(m.name) \o " 1\n.Os\n.Sh NAME\n.Nm "
    \o m.name \o "\n.Nd "
    \o TrimEndMatches(UnwrapOrDefault(m.description), Period) \o "."

TemplateFooter(m) == ".Sh AUTHORS\n" \o UnwrapOrDefault(m.author)

\* C2: a drop never writes a target whose path is not set; with path,
\* header_path and footer_path all set and no write failing it makes exactly
\* three writes, body then header then footer, each to its own path: the
\* rendered page, the header template filled with the upper-cased name, the
\* name and the description less its trailing periods, and the footer template
\* filled with the author; on three different paths the three files hold them.
C2_ThreeWritesInOrder ==
    [][DropStep =>
        /\ \A i \in 1..Len(writes') : IsSome(man[writes'[i].target])
        /\ (/\ Len(SetTargets(man)) = Len(Targets)
            /\ \A i \in 1..Len(writes') : writes'[i].result = "ok")
           => /\ writes' =
                   << [target |-> "path", path |-> Unwrap(man.path),
                       data |-> Fmt(man), result |-> "ok"],
                      [target |-> "header_path", path |-> Unwrap(man.header_path),
                       data |-> TemplateHeader(man), result |-> "ok"],
                      [target |-> "footer_path", path |-> Unwrap(man.footer_path),
                       data |-> TemplateFooter(man), result |-> "ok"] >>
              /\ Cardinality({Unwrap(man.path), Unwrap(man.header_path),
                              Unwrap(man.footer_path)}) = Len(Targets)
                 => /\ files'[Unwrap(man.path)] = WholeFile(Fmt(man))
                    /\ files'[Unwrap(man.header_path)] = WholeFile(TemplateHeader(man))
                    /\ files'[Unwrap(man.footer_path)] = WholeFile(TemplateFooter(man))
    ]_vars

\* C2 witness: a page with a name, a description ending in periods, an author
\* and a flag was dropped, and its three files are on disk
C2_Witness ==
    /\ pc = "dropped"
    /\ Len(writes) = Len(Targets)
    /\ \A i \in 1..Len(writes) : writes[i].result = "ok"
    /\ Cardinality({writes[i].path : i \in 1..Len(writes)}) = Len(Targets)
    /\ man.name = "ls" /\ man.description = Some("List files..")
    /\ man.author = Some("J. Doe") /\ man.flags # <<>>
    /\ files[writes[1].path] = WholeFile(".Nm\n.Op Fl -all | -a\n" \o FlagOpen
                                          \o "\n.It Fl -all | -a\nShow all.\n.El\n")
    /\ files[writes[2].path] =
           WholeFile(".Dd $Mdocdate$\n.Dt LS 1\n.Os\n.Sh NAME\n.Nm ls\n.Nd List files.")
    /\ files[writes[3].path] = WholeFile(".Sh AUTHORS\nJ. Doe")

(***************************************************************************)
(* Subcommands (SpecSub)                                                   *)
(***************************************************************************)
\* C3: push_subcommand(cmd), the end of cmd's lifetime inside it included,
\* writes no file at any path the caller set on cmd; no page but the transient
\* ones is dropped here, so no file exists at all.
C3_NoSubcommandFiles == \A p \in Paths : files[p] = NoFile

\* C10: the subcommand list holds one Subcommand per push_subcommand call, in
\* call order, the i-th with the name and the flags of the i-th page handed in
\* and with its long_description as doc if it has one, else its description,
\* else none.
C10_SubcommandsFollowCalls ==
    /\ Len(man.subcommands) = Len(pushed)
    /\ \A i \in 1..Len(pushed) :
        /\ man.subcommands[i].name = pushed[i].name
        /\ man.subcommands[i].flags = pushed[i].flags
        /\ man.subcommands[i].doc =
               (IF IsSome(pushed[i].long_description)
                THEN pushed[i].long_description
                ELSE pushed[i].description)

\* C10 witness: two calls, the first with both descriptions and a flag, the
\* second another command with the short description alone
C10_Witness ==
    /\ Len(pushed) = 2
    /\ pushed[1].name = "rm"
    /\ pushed[1].description = Some("Short") /\ pushed[1].long_description = Some("Long.")
    /\ pushed[1].flags = <<Flag0>>
    /\ pushed[2].name = "add"
    /\ pushed[2].description = Some("Short") /\ pushed[2].long_description = None
    /\ man.subcommands[1] =
           [name |-> "rm", args |-> None, flags |-> <<Flag0>>, doc |-> Some("Long.")]
    /\ man.subcommands[2] =
           [name |-> "add", args |-> None, flags |-> <<>>, doc |-> Some("Short")]

Boundary == Whitespace \cup Period \cup Quote

\* a text in normal form: a core that neither begins nor ends with whitespace,
\* a period or a double quote, followed by exactly one period
NormalForm(t) ==
    /\ Len(t) >= 1
    /\ Char(t, Len(t)) = "."
    /\ LET core == SubSeq(t, 1, Len(t) - 1)
       IN  core # "" => (Char(core, 1) \notin Boundary /\ Char(core, Len(core)) \notin Boundary)

Stored ==
    CASE pc = "Flag::long" -> flag.long
      [] pc = "Flag::short" -> flag.short
      [] pc = "Flag::doc" -> flag.doc
      [] pc = "Subcommand::doc" -> subcmd.doc
      [] pc = "Manpage::name" -> Some(man.name)
      [] pc = "Manpage::description" -> man.description
      [] pc = "Manpage::long_description" -> man.long_description
      [] pc = "Manpage::author" -> man.author
      [] pc = "Manpage::version" -> man.version

\* at most one leading and one trailing double quote removed
StripOneLayer(v) ==
    LET a == IF StartsWith(v, "\"") THEN SubSeq(v, 2, Len(v)) ELSE v
    IN  IF EndsWith(a, "\"") THEN SubSeq(a, 1, Len(a) - 1) ELSE a

\* C5: every textual setter stores its input less a single layer of surrounding
\* double quotes (at most one leading and one trailing quote are removed), and
\* an absent value stays absent.
C5_SingleLayerTrimmed ==
    pc # "call" =>
        Stored = (IF IsSome(val) THEN Some(StripOneLayer(Unwrap(val))) ELSE None)

AllQuotes(s) == \A i \in 1..Len(s) : Char(s, i) \in Quote

\* t is v less a run of leading and a run of trailing double quotes, and t
\* neither begins nor ends with one
QuotesStripped(v, t) ==
    /\ \E a, b \in 0..Len(v) :
        /\ a + b <= Len(v)
        /\ AllQuotes(SubSeq(v, 1, a))
        /\ AllQuotes(SubSeq(v, Len(v) - b + 1, Len(v)))
        /\ t = SubSeq(v, a + 1, Len(v) - b)
    /\ t # "" => (Char(t, 1) \notin Quote /\ Char(t, Len(t)) \notin Quote)

\* C5 (amended): every textual setter stores its input less all its leading and
\* all its trailing double quotes, every other character kept, and an absent
\* value stays absent.
C5_AllSurroundingQuotesTrimmed ==
    pc # "call" =>
        IF IsSome(val)
        THEN IsSome(Stored) /\ QuotesStripped(Unwrap(val), Unwrap(Stored))
        ELSE Stored = None

\* C5 witness: Flag::doc was handed a text behind two quotes with a quote
\* inside, dropped both and kept the inner one
C5_Witness ==
    /\ pc = "Flag::doc"
    /\ val = Some("\"\"a\"a")
    /\ flag.doc = Some("a\"a")

(***************************************************************************)
(* The renderer (SpecRender)                                               *)
(***************************************************************************)
Body == Unwrap(rendered)

RECURSIVE SubcommandFlags(_)
\* the named flags of the subcommands, in rendering order
SubcommandFlags(cmds) ==
    IF cmds = <<>> THEN <<>>
    ELSE SubcommandFlags(SubSeq(cmds, 1, Len(cmds) - 1))
         \o NamedFlags(cmds[Len(cmds)].flags)

\* the suffix the arity rule gives a flag
ArityRule(f) ==
    IF f.args = None THEN ""
    ELSE " Ar "
         \o (IF Unwrap(f.args).kind # None THEN Unwrap(Unwrap(f.args).kind)
             ELSE IF f.long # None THEN Unwrap(f.long)
             ELSE IF f.short # None THEN Unwrap(f.short)
             ELSE "ARGUMENT")
         \o (IF Unwrap(f.args).multiple THEN " ..." ELSE "")

\* line is a label without placeholder followed by the suffix of the rule
FollowsArityRule(line, f) ==
    /\ EndsWith(line, ArityRule(f))
    /\ ~Contains(SubSeq(line, 1, Len(line) - Len(ArityRule(f))), " Ar")

\* C6: every flag that is rendered gets the suffix of the arity rule: none
\* without an arity, else the kind, else the long name, else the short name (else
\* ARGUMENT) as placeholder, followed by ' ...' exactly when multiple is set.
\* This holds of its synopsis line, of its flag-table item and, for the flags of
\* the subcommands, of its line in the subcommand's item.
C6_ArityRule ==
    pc = "rendered" =>
        LET lines == Lines(Body)
            synopsis == StartingWith(lines, ".Op ")
            items == StartingWith(lines, ".It Fl ")
            sublines == StartingWith(lines, ".Fl ")
            named == NamedFlags(man.flags)
            subflags == SubcommandFlags(man.subcommands)
        IN  /\ Len(synopsis) = Len(named)
            /\ \A i \in 1..Len(named) : FollowsArityRule(synopsis[i], named[i])
            /\ Len(items) = Len(named)
            /\ \A i \in 1..Len(named) : FollowsArityRule(items[i], named[i])
            /\ Len(sublines) = Len(subflags)
            /\ \A i \in 1..Len(subflags) : FollowsArityRule(sublines[i], subflags[i])

\* C6 witness: long "tag" with a repeatable arity without kind on the page and
\* in a subcommand, the short name "t" being set there too
C6_Witness ==
    /\ pc = "rendered"
    /\ man.flags = <<Flag0>>
    /\ Len(man.subcommands) = 1
    /\ man.subcommands[1].flags =
           <<Flag(Some("tag"), Some("t"), Some(TakesValue(None, TRUE)), None),
             Flag(Some("tag"), Some("t"), Some(TakesValue(Some("FILE"), FALSE)), None)>>
    /\ HasLine(Lines(Body), ".Fl -tag | -t Ar tag ...")
    /\ HasLine(Lines(Body), ".Fl -tag | -t Ar FILE")

\* C7: with flags and subcommands both present, the flag table, ending in
\* '.El', comes before the subcommand block, and an empty line lies between
\* that '.El' and the block's opening line.
C7_BlankLineBetweenBlocks ==
    (pc = "rendered" /\ man.flags # <<>> /\ man.subcommands # <<>>) =>
        LET lines == Lines(Body)
        IN  \E i \in 1..Len(lines) :
                /\ \E j \in 1..(i - 1) : lines[j] = FlagOpen
                /\ lines[i] = ".El"
                /\ i + 2 <= Len(lines)
                /\ lines[i + 1] = ""
                /\ lines[i + 2] = SubOpen

\* C7 (amended): with flags and subcommands both present, the flag table,
\* ending in '.El', comes before the subcommand block, and the block's opening
\* line is the very next line after that '.El': one line feed lies between them
\* and no empty line.
C7_BlocksOnAdjacentLines ==
    (pc = "rendered" /\ man.flags # <<>> /\ man.subcommands # <<>>) =>
        LET lines == Lines(Body)
        IN  \E i \in 1..Len(lines) :
                /\ \E j \in 1..(i - 1) : lines[j] = FlagOpen
                /\ lines[i] = ".El"
                /\ i + 1 <= Len(lines)
                /\ lines[i + 1] = SubOpen

\* C7 witness: a page with a flag and a subcommand was rendered
C7_Witness ==
    /\ pc = "rendered"
    /\ man.flags = <<Flag0>> /\ man.subcommands = <<Sub0>>
    /\ Contains(Body, ".It Fl -all | -a\nShow all.\n.El\n" \o SubOpen \o "\n.It Ic add\n")

\* the page less its nameless flags, those of its subcommands included
WithoutNameless(m) ==
    [m EXCEPT !.flags = NamedFlags(m.flags),
              !.subcommands = [i \in 1..Len(m.subcommands) |->
                  [m.subcommands[i] EXCEPT !.flags = NamedFlags(m.subcommands[i].flags)]]]

\* C8: a nameless flag adds no text: as long as a named top-level flag is left
\* (or there was no top-level flag), the page renders as it does with every
\* nameless flag removed from the flag list and from the subcommands' lists.
C8_NamelessFlagsAddNothing ==
    (pc = "rendered" /\ (man.flags = <<>> \/ NamedFlags(man.flags) # <<>>)) =>
        Body = Fmt(WithoutNameless(man))

\* C8 witness: a nameless flag with an arity and a doc stood before a named one
C8_Witness ==
    /\ pc = "rendered"
    /\ Len(man.flags) = 2
    /\ man.flags[1] = Flag(None, None, Some(TakesValue(None, TRUE)), Some("Never shown"))
    /\ ~Nameless(man.flags[2])
    /\ ~Contains(Body, "Never shown")
    /\ ~Contains(Body, "ARGUMENT")

\* C9: the body has the synopsis line '.Nm' and the opening line of the flag
\* table exactly when there are flags, the opening line of the subcommand list
\* and '.Pp' exactly when there are subcommands, and one '.El' for each of the
\* two blocks that is present.
C9_DelimitersIffNonEmpty ==
    pc = "rendered" =>
        LET lines == Lines(Body)
        IN  /\ HasLine(lines, ".Nm") <=> man.flags # <<>>
            /\ HasLine(lines, FlagOpen) <=> man.flags # <<>>
            /\ HasLine(lines, SubOpen) <=> man.subcommands # <<>>
            /\ HasLine(lines, ".Pp") <=> man.subcommands # <<>>
            /\ CountLine(lines, ".El") =
                   (IF man.flags # <<>> THEN 1 ELSE 0)
                   + (IF man.subcommands # <<>> THEN 1 ELSE 0)

\* C9 witness: a page without flags and without subcommands was rendered, to
\* a single line feed
C9_Witness ==
    /\ pc = "rendered"
    /\ man.flags = <<>> /\ man.subcommands = <<>>
    /\ rendered = Some("\n")
====
